---- MODULE Spec2Model ----
(***************************************************************************)
(* Model of js/model/SphereBucket.js: a bucket that stacks spheres in a    *)
(* pyramid of slots, places added spheres, and re-stacks the remaining     *)
(* spheres when one is removed.                                            *)
(*                                                                         *)
(* Lengths are integers in hundredths of a model unit (Scale), so that the *)
(* layer step sphereRadius * 2 * 0.866 is exact for the radii used.  A     *)
(* point is a pair <<x, y>>.  Distances are compared by their squares,     *)
(* which orders them exactly as Vector2.distance does.                     *)
(***************************************************************************)
EXTENDS Integers, Sequences, FiniteSets, TLC

\* ------------------------------------------------------------------------
\* Bounds of the model
\* ------------------------------------------------------------------------
NumSpheres == 2         \* spheres of the general specification
StackSpheres == 3       \* spheres of the specification without held or animated spheres
FillSpheres == 5        \* spheres of the fill-only specification
PairSpheres == 2        \* spheres of the specification with two buckets
MaxMembers == 2         \* longest this._particles of the specification with two buckets
MaxLinked == 2          \* most removal listeners linked to one sphere
MaxPasses == 12         \* passes after which a relayout is taken never to end

\* ------------------------------------------------------------------------
\* Geometry
\* ------------------------------------------------------------------------
Scale == 100

ZERO == <<0, 0>>        \* Vector2.ZERO

Abs(n) == IF n < 0 THEN -n ELSE n

\* square of Vector2.distance
distanceSquared(p, q) ==
  (p[1] - q[1]) * (p[1] - q[1]) + (p[2] - q[2]) * (p[2] - q[2])

\* The constructor's options, with Bucket's position and size.width.
\* usableWidthProportion is in percent; verticalParticleOffset defaults to
\* -sphereRadius * 0.4.
SphereBucket(position, width, sphereRadius, usableWidthProportion) ==
  [ position |-> position,
    width |-> width,
    sphereRadius |-> sphereRadius,
    usableWidthProportion |-> usableWidthProportion,
    verticalParticleOffset |-> -((sphereRadius * 4) \div 10) ]

\* sphereRadius 10, usableWidthProportion 1.0, width 100: 4 slots in layer 0
StandardBucket == SphereBucket(<<0, 0>>, 100 * Scale, 10 * Scale, 100)
\* the same bucket away from the origin
FarStandardBucket == SphereBucket(<<-80 * Scale, 40 * Scale>>, 100 * Scale, 10 * Scale, 100)
\* 3 slots in layer 0
ThreeSlotBucket == SphereBucket(<<-80 * Scale, 40 * Scale>>, 80 * Scale, 10 * Scale, 100)
\* 2 slots in layer 0, at the origin and away from it
TwoSlotBucket == SphereBucket(<<0, 0>>, 60 * Scale, 10 * Scale, 100)
FarTwoSlotBucket == SphereBucket(<<-80 * Scale, 40 * Scale>>, 60 * Scale, 10 * Scale, 100)
\* 2 slots in layer 0 with radius 5 and proportion 0.75
SmallTwoSlotBucket == SphereBucket(<<40 * Scale, -60 * Scale>>, 40 * Scale, 5 * Scale, 75)
\* 1 slot in layer 0
OneSlotBucket == SphereBucket(<<-80 * Scale, 40 * Scale>>, 40 * Scale, 10 * Scale, 100)
\* usable width smaller than one sphere: 0 slots in layer 0
ZeroSlotBucket == SphereBucket(<<-80 * Scale, 40 * Scale>>, 30 * Scale, 10 * Scale, 100)

usableWidth(b) ==
  (b.width * b.usableWidthProportion) \div 100 - 2 * b.sphereRadius

\* offsetFromBucketEdge and numParticlesInLayer of layer 0
offsetFromBucketEdge0(b) == (b.width - usableWidth(b)) \div 2 + b.sphereRadius

numParticlesInLayer0(b) == usableWidth(b) \div (b.sphereRadius * 2)

layerStep(b) == (b.sphereRadius * 2 * 866) \div 1000

getYPositionForLayer(b, layer) ==
  b.position[2] + b.verticalParticleOffset + layer * layerStep(b)

\* Util.roundSymmetric rounds half away from zero, so the absolute value
\* of the rounded quotient is floor(|q| + 1/2).
getLayerForYPosition(b, yPosition) ==
  LET d == Abs(yPosition - (b.position[2] + b.verticalParticleOffset))
  IN  (2 * d + layerStep(b)) \div (2 * layerStep(b))

\* testLocation with the slots of a layer one radius apart
testLocationSpacedByRadius(b, offsetFromBucketEdge, positionInLayer, layer) ==
  << b.position[1] - b.width \div 2 + offsetFromBucketEdge
       + positionInLayer * b.sphereRadius,
     getYPositionForLayer(b, layer) >>

\* the test location of getFirstOpenLocation and getNearestOpenLocation
testLocation(b, offsetFromBucketEdge, positionInLayer, layer) ==
  << b.position[1] - b.width \div 2 + offsetFromBucketEdge
       + positionInLayer * 2 * b.sphereRadius,
     getYPositionForLayer(b, layer) >>

\* ------------------------------------------------------------------------
\* Queries on the particles of a bucket: ps is this._particles, dest the
\* destinationProperty of every sphere
\* ------------------------------------------------------------------------
containsParticle(ps, particle) == \E i \in 1..Len(ps) : ps[i] = particle

\* isPositionOpen with a loop that stops one particle early
isPositionOpenButLast(ps, dest, p) == \A i \in 1..(Len(ps) - 1) : dest[ps[i]] # p

isPositionOpen(ps, dest, p) == \A i \in 1..Len(ps) : dest[ps[i]] # p

countSupportingParticles(b, ps, dest, p) ==
  Cardinality({ i \in 1..Len(ps) :
                  /\ dest[ps[i]][2] < p[2]
                  /\ distanceSquared(dest[ps[i]], p)
                       < (b.sphereRadius * 3) * (b.sphereRadius * 3) })

\* isDangling without the test for the bottom row
isDanglingOnAnyRow(b, ps, dest, particle) ==
  countSupportingParticles(b, ps, dest, dest[particle]) < 2

isDangling(b, ps, dest, particle) ==
  LET onBottomRow == dest[particle][2] = b.position[2] + b.verticalParticleOffset
  IN  ~onBottomRow /\ countSupportingParticles(b, ps, dest, dest[particle]) < 2

\* the loop of getFirstOpenLocation, from the loop variables row,
\* positionInLayer, numParticlesInLayer and offsetFromBucketEdge
RECURSIVE firstOpenLoop(_, _, _, _, _, _, _)
firstOpenLoop(b, ps, dest, row, positionInLayer, numParticlesInLayer, offsetFromBucketEdge) ==
  LET t == testLocation(b, offsetFromBucketEdge, positionInLayer, row)
  IN  IF isPositionOpen(ps, dest, t) THEN t
      ELSE IF positionInLayer + 1 >= numParticlesInLayer
           THEN IF numParticlesInLayer - 1 = 0
                THEN firstOpenLoop(b, ps, dest, row + 1, 0, 1, offsetFromBucketEdge)
                ELSE firstOpenLoop(b, ps, dest, row + 1, 0, numParticlesInLayer - 1,
                                   offsetFromBucketEdge + b.sphereRadius)
           ELSE firstOpenLoop(b, ps, dest, row, positionInLayer + 1,
                              numParticlesInLayer, offsetFromBucketEdge)

\* getFirstOpenLocation with one slot too many in layer 0
getFirstOpenLocationOneMore(b, ps, dest) ==
  firstOpenLoop(b, ps, dest, 0, 0, numParticlesInLayer0(b) + 1, offsetFromBucketEdge0(b))

getFirstOpenLocation(b, ps, dest) ==
  firstOpenLoop(b, ps, dest, 0, 0, numParticlesInLayer0(b), offsetFromBucketEdge0(b))

\* the highest occupied layer; the bottom layer is 0
highestOccupiedLayer(b, ps, dest) ==
  LET layers == { getLayerForYPosition(b, dest[ps[i]][2]) : i \in 1..Len(ps) }
  IN  IF layers = {} THEN 0
      ELSE CHOOSE l \in layers : \A m \in layers : m <= l

\* the open locations of one layer that getNearestOpenLocation accepts,
\* left to right
openLocationsInLayer(b, ps, dest, layer, numParticlesInLayer, offsetFromBucketEdge) ==
  LET valid(t) == /\ isPositionOpen(ps, dest, t)
                  /\ (layer = 0 \/ countSupportingParticles(b, ps, dest, t) = 2)
      all == [ k \in 1..numParticlesInLayer |->
                 testLocation(b, offsetFromBucketEdge, k - 1, layer) ]
  IN  SelectSeq(all, valid)

\* the layer loop of getNearestOpenLocation: layers layer..lastLayer
RECURSIVE openLocationsLoop(_, _, _, _, _, _, _)
openLocationsLoop(b, ps, dest, layer, lastLayer, numParticlesInLayer, offsetFromBucketEdge) ==
  IF layer > lastLayer THEN << >>
  ELSE openLocationsInLayer(b, ps, dest, layer, numParticlesInLayer, offsetFromBucketEdge)
       \o (IF numParticlesInLayer - 1 = 0
           THEN openLocationsLoop(b, ps, dest, layer + 1, lastLayer, 1, offsetFromBucketEdge)
           ELSE openLocationsLoop(b, ps, dest, layer + 1, lastLayer,
                                  numParticlesInLayer - 1,
                                  offsetFromBucketEdge + b.sphereRadius))

openLocations(b, ps, dest) ==
  openLocationsLoop(b, ps, dest, 0, highestOccupiedLayer(b, ps, dest) + 1,
                    numParticlesInLayer0(b), offsetFromBucketEdge0(b))

\* location is closer to position than closestOpenLocation is
isCloser(location, closestOpenLocation, position) ==
  distanceSquared(location, position) < distanceSquared(closestOpenLocation, position)

\* the _.each of getNearestOpenLocation over locs[k..]
RECURSIVE closestLoop(_, _, _, _)
closestLoop(locs, k, closestOpenLocation, position) ==
  IF k > Len(locs) THEN closestOpenLocation
  ELSE closestLoop(locs, k + 1,
                   IF isCloser(locs[k], closestOpenLocation, position)
                   THEN locs[k] ELSE closestOpenLocation,
                   position)

\* openLocations[ 0 ] || Vector2.ZERO
fallbackLocation(b, locs) == IF Len(locs) > 0 THEN locs[1] ELSE ZERO

getNearestOpenLocation(b, ps, dest, position) ==
  LET locs == openLocations(b, ps, dest)
  IN  closestLoop(locs, 1, fallbackLocation(b, locs), position)

\* One pass of relayoutBucketParticles moves the first dangling particle
\* and starts over.  The passes are a function of the destinations alone,
\* so the loop never ends when a destination assignment recurs; seen holds
\* the assignments passed through.  It does not end either when a particle
\* climbs layer by layer without bound, which the model takes to be the case
\* after MaxPasses passes.
firstDangling(b, ps, dest) ==
  LET dangling == { i \in 1..Len(ps) : isDangling(b, ps, dest, ps[i]) }
  IN  IF dangling = {} THEN 0
      ELSE CHOOSE i \in dangling : \A j \in dangling : i <= j

RECURSIVE relayoutLoop(_, _, _, _)
relayoutLoop(b, ps, dest, seen) ==
  LET i == firstDangling(b, ps, dest)
  IN  IF i = 0 THEN [ returns |-> TRUE, destination |-> dest ]
      ELSE LET moved == [ dest EXCEPT ![ps[i]] =
                            getNearestOpenLocation(b, ps, dest, dest[ps[i]]) ]
           IN  IF moved \in seen \/ Cardinality(seen) > MaxPasses
               THEN [ returns |-> FALSE, destination |-> moved ]
               ELSE relayoutLoop(b, ps, moved, seen \cup { moved })

relayoutBucketParticles(b, ps, dest) == relayoutLoop(b, ps, dest, { dest })

\* ------------------------------------------------------------------------
\* State
\*
\* A sphere outside the bucket belongs to the caller: the state holds the
\* properties of the particles of the bucket, and an operation that adds a
\* sphere takes the values of its properties on arrival as inputs.  The
\* removal listener is kept for every sphere, so that one left behind on a
\* sphere that is no longer in the bucket shows.
\* ------------------------------------------------------------------------
VARIABLES
  bucket,                 \* the bucket's geometry, fixed at construction
  particles,              \* this._particles, in order of arrival
  destination,            \* destinationProperty of every particle
  position,               \* positionProperty of every particle
  userControlled,         \* userControlledProperty of every particle
  bucketRemovalListener,  \* the sphere has its removal listener attached and linked
  assertFailed,           \* 'listener still present after being removed from bucket'
  hung,                   \* control is inside a relayout that never ends
  last,                   \* the operation completed last, its arguments and result
  pc,                     \* where control is inside a removeParticle taken step by step
  particlesOf,            \* with two buckets: this._particles of either bucket
  sphere,                 \* with two buckets: the properties of every sphere
  notInBucket             \* 'attempt made to remove particle that is not in bucket'

\* the state of the specifications that take removeParticle step by step
\* or have two buckets
restVars == << pc, particlesOf, sphere, notInBucket >>

vars == << bucket, particles, destination, position, userControlled,
           bucketRemovalListener, assertFailed, hung, last, restVars >>

Spheres == DOMAIN bucketRemovalListener

None == 0               \* no sphere: null

\* where a sphere lies when it is handed to the bucket
Start == << 0, 30 * Scale >>

\* the places a caller drops a sphere at before addParticleNearestOpen,
\* and the places extractClosestParticle is asked about
DropPoints(b) ==
  { << b.position[1] + 4 * Scale, b.position[2] - 14 * Scale >>,
    << b.position[1] - 15 * Scale, b.position[2] + 40 * Scale >> }

Buckets == { TwoSlotBucket, OneSlotBucket, ZeroSlotBucket }

StackBuckets == { SmallTwoSlotBucket, OneSlotBucket, ZeroSlotBucket }

DropBuckets == { StandardBucket, ThreeSlotBucket }

FillBuckets ==
  { StandardBucket, FarStandardBucket, ThreeSlotBucket, SmallTwoSlotBucket,
    OneSlotBucket, ZeroSlotBucket }

\* f without the key k, and f with the key k at v
drop(f, k) == [ x \in DOMAIN f \ { k } |-> f[x] ]
put(f, k, v) == [ x \in DOMAIN f \cup { k } |-> IF x = k THEN v ELSE f[x] ]

\* The record of an operation: its name, the sphere, point and flag it was
\* called with, the sphere it returned, and whether it is an
\* addParticleFirstOpen that directly follows another one.
Op(op, particle, location, flag, result) ==
  [ op |-> op, particle |-> particle, location |-> location, flag |-> flag,
    result |-> result, again |-> FALSE ]

InitOne(buckets, n) ==
  /\ bucket \in buckets
  /\ particles = << >>
  /\ destination = << >>
  /\ position = << >>
  /\ userControlled = << >>
  /\ bucketRemovalListener = [ s \in 1..n |-> FALSE ]
  /\ assertFailed = FALSE
  /\ hung = FALSE
  /\ last = Op("new", None, ZERO, FALSE, None)

InitWith(buckets, n) ==
  /\ InitOne(buckets, n)
  /\ pc = "idle"
  /\ particlesOf = << >>
  /\ sphere = << >>
  /\ notInBucket = FALSE

Init == InitWith(Buckets, NumSpheres)

\* ------------------------------------------------------------------------
\* Operations
\* ------------------------------------------------------------------------

\* addParticle with the test of animate inverted
addParticleSnappingWhenAnimated(particle, location, arrivedAt, held, animate) ==
  /\ destination' = put(destination, particle, location)
  /\ position' = put(position, particle, IF animate THEN location ELSE arrivedAt)
  /\ userControlled' = put(userControlled, particle, held)
  /\ particles' = Append(particles, particle)
  /\ bucketRemovalListener' = [ bucketRemovalListener EXCEPT ![particle] = TRUE ]

\* addParticle, for a particle whose destination has been set to location:
\* snaps the position unless animated, appends the particle and links its
\* removal listener
addParticle(particle, location, arrivedAt, held, animate) ==
  /\ destination' = put(destination, particle, location)
  /\ position' = put(position, particle, IF animate THEN arrivedAt ELSE location)
  /\ userControlled' = put(userControlled, particle, held)
  /\ particles' = Append(particles, particle)
  /\ bucketRemovalListener' = [ bucketRemovalListener EXCEPT ![particle] = TRUE ]

\* The sphere arrives lying at Start, held by the user or not.
AddParticleFirstOpen(particle, held, animate) ==
  /\ ~hung
  /\ ~containsParticle(particles, particle)
  /\ \E location \in { getFirstOpenLocation(bucket, particles, destination) } :
       addParticle(particle, location, Start, held, animate)
  /\ last' = [ Op("addParticleFirstOpen", particle, ZERO, animate, None)
                 EXCEPT !.again = (last.op = "addParticleFirstOpen") ]
  /\ UNCHANGED << bucket, assertFailed, hung, restVars >>

\* The sphere arrives lying at Start with its destination at dropPoint.
AddParticleNearestOpen(particle, dropPoint, held, animate) ==
  /\ ~hung
  /\ ~containsParticle(particles, particle)
  /\ \E location \in { getNearestOpenLocation(bucket, particles, destination,
                                               dropPoint) } :
       addParticle(particle, location, Start, held, animate)
  /\ last' = Op("addParticleNearestOpen", particle, dropPoint, animate, None)
  /\ UNCHANGED << bucket, assertFailed, hung, restVars >>

\* removeParticle without the unlinking of the removal listener
removeParticleKeepingListener(b, ps, dest, listeners, particle, skipLayout) ==
  LET without == SelectSeq(ps, LAMBDA x : x # particle)
      layout == IF skipLayout
                THEN [ returns |-> TRUE, destination |-> drop(dest, particle) ]
                ELSE relayoutBucketParticles(b, without, drop(dest, particle))
  IN  [ particles |-> without,
        bucketRemovalListener |-> listeners,
        destination |-> layout.destination,
        returns |-> layout.returns ]

\* removeParticle as a function of the bucket's state: the particles, the
\* listeners and the destinations it leaves, and whether it returns
removeParticle(b, ps, dest, listeners, particle, skipLayout) ==
  LET without == SelectSeq(ps, LAMBDA x : x # particle)
      layout == IF skipLayout
                THEN [ returns |-> TRUE, destination |-> drop(dest, particle) ]
                ELSE relayoutBucketParticles(b, without, drop(dest, particle))
  IN  [ particles |-> without,
        bucketRemovalListener |-> [ listeners EXCEPT ![particle] = FALSE ],
        destination |-> layout.destination,
        returns |-> layout.returns ]

RemoveParticle(particle, skipLayout) ==
  /\ ~hung
  /\ containsParticle(particles, particle)
  /\ \E r \in { removeParticle(bucket, particles, destination, bucketRemovalListener,
                                 particle, skipLayout) } :
         /\ particles' = r.particles
         /\ bucketRemovalListener' = r.bucketRemovalListener
         /\ destination' = r.destination
         /\ hung' = ~r.returns
  /\ position' = drop(position, particle)
  /\ userControlled' = drop(userControlled, particle)
  /\ last' = Op("removeParticle", particle, ZERO, skipLayout, None)
  /\ UNCHANGED << bucket, assertFailed, restVars >>

\* userControlledProperty.set( value ) of a particle: a Property notifies
\* its listeners only when the value changes; the listener linked by
\* addParticle removes the particle and then asserts that its listener is
\* gone.
setUserControlled(b, ps, dest, listeners, uc, particle, value) ==
  LET notified == uc[particle] # value /\ listeners[particle]
      r == IF notified
           THEN removeParticle(b, ps, dest, listeners, particle, FALSE)
           ELSE [ particles |-> ps, bucketRemovalListener |-> listeners,
                  destination |-> dest, returns |-> TRUE ]
  IN  [ notified |-> notified,
        value |-> value,
        particles |-> r.particles,
        bucketRemovalListener |-> r.bucketRemovalListener,
        destination |-> r.destination,
        returns |-> r.returns,
        assertFailed |-> notified /\ r.returns /\ r.bucketRemovalListener[particle] ]

\* the state after setUserControlled: a particle that has left the bucket
\* takes its properties with it
afterSetUserControlled(r, particle) ==
  /\ particles' = r.particles
  /\ bucketRemovalListener' = r.bucketRemovalListener
  /\ destination' = r.destination
  /\ hung' = ~r.returns
  /\ assertFailed' = (assertFailed \/ r.assertFailed)
  /\ IF containsParticle(r.particles, particle)
     THEN /\ userControlled' = [ userControlled EXCEPT ![particle] = r.value ]
          /\ position' = position
     ELSE /\ userControlled' = drop(userControlled, particle)
          /\ position' = drop(position, particle)

\* the user grabs or releases a particle of the bucket
SetUserControlled(particle, value) ==
  /\ ~hung
  /\ containsParticle(particles, particle)
  /\ userControlled[particle] # value
  /\ \E r \in { setUserControlled(bucket, particles, destination, bucketRemovalListener,
                                    userControlled, particle, value) } :
       afterSetUserControlled(r, particle)
  /\ last' = Op("userControlled", particle, ZERO, value, None)
  /\ UNCHANGED << bucket, restVars >>

\* the forEach of extractClosestParticle over ps[k..]
RECURSIVE closestParticleLoop(_, _, _, _, _)
closestParticleLoop(ps, pos, k, closest, location) ==
  IF k > Len(ps) THEN closest
  ELSE closestParticleLoop(ps, pos, k + 1,
         IF \/ closest = None
            \/ distanceSquared(pos[closest], location)
                 > distanceSquared(pos[ps[k]], location)
         THEN ps[k] ELSE closest,
         location)

\* closestParticle with >= for >: the last of the nearest particles wins
closestParticleLastWins(ps, pos, location) ==
  IF ps = << >> THEN None
  ELSE ps[CHOOSE i \in 1..Len(ps) :
            /\ \A j \in 1..Len(ps) :
                 distanceSquared(pos[ps[i]], location) <= distanceSquared(pos[ps[j]], location)
            /\ \A j \in (i + 1)..Len(ps) :
                 distanceSquared(pos[ps[i]], location) < distanceSquared(pos[ps[j]], location)]

closestParticle(ps, pos, location) == closestParticleLoop(ps, pos, 1, None, location)

\* last.flag is the userControlled value of the particle returned
ExtractClosestParticle(location) ==
  /\ ~hung
  /\ \E c \in { closestParticle(particles, position, location) } :
         /\ last' = Op("extractClosestParticle", None, location, c # None, c)
         /\ IF c = None
            THEN UNCHANGED << particles, destination, position, userControlled,
                              bucketRemovalListener, assertFailed, hung >>
            ELSE \E r \in { setUserControlled(bucket, particles, destination,
                                               bucketRemovalListener, userControlled,
                                               c, TRUE) } :
                   afterSetUserControlled(r, c)
  /\ UNCHANGED << bucket, restVars >>

\* reset unlinks the listener of every particle and empties the array
Reset ==
  /\ ~hung
  /\ bucketRemovalListener' =
       [ s \in Spheres |-> bucketRemovalListener[s] /\ ~containsParticle(particles, s) ]
  /\ particles' = << >>
  /\ destination' = << >>
  /\ position' = << >>
  /\ userControlled' = << >>
  /\ last' = Op("reset", None, ZERO, FALSE, None)
  /\ UNCHANGED << bucket, assertFailed, hung, restVars >>

\* the steps of a bucket whose arriving spheres are held or not as helds
\* says and are animated or not as animates says
NextWith(helds, animates) ==
  \/ \E s \in Spheres, held \in helds, animate \in animates :
       AddParticleFirstOpen(s, held, animate)
  \/ \E s \in Spheres, p \in DropPoints(bucket), held \in helds, animate \in animates :
       AddParticleNearestOpen(s, p, held, animate)
  \/ \E s \in Spheres, skipLayout \in BOOLEAN : RemoveParticle(s, skipLayout)
  \/ \E s \in Spheres, value \in BOOLEAN : SetUserControlled(s, value)
  \/ \E p \in DropPoints(bucket) : ExtractClosestParticle(p)
  \/ Reset

Next == NextWith(BOOLEAN, BOOLEAN)

Spec == Init /\ [][Next]_vars

\* More spheres, none of them held on arrival and none animated.
InitStack == InitWith(StackBuckets, StackSpheres)

NextStack == NextWith({ FALSE }, { FALSE })

SpecStack == InitStack /\ [][NextStack]_vars

\* Spheres are only added, to a bucket with 3 or 4 slots in layer 0.
InitDrop == InitWith(DropBuckets, StackSpheres)

NextDrop ==
  \/ \E s \in Spheres : AddParticleFirstOpen(s, FALSE, FALSE)
  \/ \E s \in Spheres, p \in DropPoints(bucket) : AddParticleNearestOpen(s, p, FALSE, FALSE)

SpecDrop == InitDrop /\ [][NextDrop]_vars

\* Spheres are only added, by addParticleFirstOpen, to a bucket that starts
\* empty.
InitFill == InitWith(FillBuckets, FillSpheres)

NextFill ==
  \E s \in Spheres, animate \in BOOLEAN : AddParticleFirstOpen(s, FALSE, animate)

SpecFill == InitFill /\ [][NextFill]_vars

\* ------------------------------------------------------------------------
\* removeParticle step by step: the eviction from the array, the unlinking
\* of the removal listener, and every pass of the do-while loop of
\* relayoutBucketParticles are steps of their own.  pc is "idle" between
\* calls, "evicted" after the eviction, and "relayout" inside the loop.
\* ------------------------------------------------------------------------

\* the assertion passes and the particle is taken out of the array
RemoveParticleEvict(particle, skipLayout) ==
  /\ pc = "idle"
  /\ containsParticle(particles, particle)
  /\ particles' = SelectSeq(particles, LAMBDA x : x # particle)
  /\ destination' = drop(destination, particle)
  /\ position' = drop(position, particle)
  /\ userControlled' = drop(userControlled, particle)
  /\ pc' = "evicted"
  /\ last' = Op("removeParticle", particle, ZERO, skipLayout, None)
  /\ UNCHANGED << bucket, bucketRemovalListener, assertFailed, hung,
                  particlesOf, sphere, notInBucket >>

\* the removal listener is unlinked and deleted if it is still present;
\* with skipLayout the call returns here
RemoveParticleUnlink ==
  /\ pc = "evicted"
  /\ bucketRemovalListener' = [ bucketRemovalListener EXCEPT ![last.particle] = FALSE ]
  /\ pc' = IF last.flag THEN "idle" ELSE "relayout"
  /\ UNCHANGED << bucket, particles, destination, position, userControlled,
                  assertFailed, hung, last, particlesOf, sphere, notInBucket >>

\* a pass of the do-while loop that finds a dangling particle: the first
\* one is given the nearest open location and the loop starts over
RelayoutMove ==
  /\ pc = "relayout"
  /\ \E i \in { firstDangling(bucket, particles, destination) } :
       /\ i # 0
       /\ destination' =
            [ destination EXCEPT ![particles[i]] =
                getNearestOpenLocation(bucket, particles, destination,
                                       destination[particles[i]]) ]
  /\ UNCHANGED << bucket, particles, position, userControlled, bucketRemovalListener,
                  assertFailed, hung, last, restVars >>

\* a pass that finds no dangling particle: the loop ends and removeParticle
\* returns
RelayoutReturn ==
  /\ pc = "relayout"
  /\ firstDangling(bucket, particles, destination) = 0
  /\ pc' = "idle"
  /\ UNCHANGED << bucket, particles, destination, position, userControlled,
                  bucketRemovalListener, assertFailed, hung, last,
                  particlesOf, sphere, notInBucket >>

StepBuckets == { ThreeSlotBucket, TwoSlotBucket, OneSlotBucket, ZeroSlotBucket }

InitSteps == InitWith(StepBuckets, StackSpheres)

NextSteps ==
  \/ \E s \in Spheres : pc = "idle" /\ AddParticleFirstOpen(s, FALSE, FALSE)
  \/ \E s \in Spheres, p \in DropPoints(bucket) :
       pc = "idle" /\ AddParticleNearestOpen(s, p, FALSE, FALSE)
  \/ \E s \in Spheres, skipLayout \in BOOLEAN : RemoveParticleEvict(s, skipLayout)
  \/ RemoveParticleUnlink
  \/ RelayoutMove
  \/ RelayoutReturn

SpecSteps == InitSteps /\ [][NextSteps]_vars

\* ------------------------------------------------------------------------
\* Two buckets that are handed the same spheres.  Nothing in addParticle
\* or removeParticle looks at whether the sphere is in a bucket already, so
\* the operations take any sphere.  particlesOf[b] is this._particles of
\* bucket b.  A sphere has one destinationProperty and one positionProperty,
\* whichever buckets hold it; linked[b] counts the listeners of bucket b
\* linked to its userControlledProperty, and bucketRemovalListener is the
\* bucket whose listener the field of that name holds.
\* ------------------------------------------------------------------------
TheBuckets == << TwoSlotBucket, OneSlotBucket >>

destinationOf(sp) == [ x \in DOMAIN sp |-> sp[x].destination ]

\* the removal listeners linked to the userControlledProperty of a sphere
numLinked(sp, s) == sp[s].linked[1] + sp[s].linked[2]

\* addParticle of bucket b, animate being false
pairAddParticle(b, particle, location) ==
  /\ Len(particlesOf[b]) < MaxMembers
  /\ numLinked(sphere, particle) < MaxLinked
  /\ sphere' = [ sphere EXCEPT ![particle] =
                   [ destination |-> location,
                     position |-> location,
                     linked |-> [ @.linked EXCEPT ![b] = @ + 1 ],
                     bucketRemovalListener |-> b ] ]
  /\ particlesOf' = [ particlesOf EXCEPT ![b] = Append(@, particle) ]

PairAddParticleFirstOpen(b, particle) ==
  /\ ~hung
  /\ \E location \in { getFirstOpenLocation(TheBuckets[b], particlesOf[b],
                                             destinationOf(sphere)) } :
       pairAddParticle(b, particle, location)
  /\ last' = Op("addParticleFirstOpen", particle, ZERO, FALSE, None) @@ [ engine |-> b ]
  /\ UNCHANGED << bucket, particles, destination, position, userControlled,
                  bucketRemovalListener, assertFailed, hung, pc, notInBucket >>

\* the properties of the spheres after the listener that the field
\* bucketRemovalListener of particle holds, if any, is unlinked and the
\* field deleted
unlinked(sp, particle) ==
  IF sp[particle].bucketRemovalListener = None THEN sp
  ELSE [ sp EXCEPT ![particle] =
           [ @ EXCEPT !.linked[sp[particle].bucketRemovalListener] = @ - 1,
                      !.bucketRemovalListener = None ] ]

\* removeParticle of bucket b, for any sphere.  With assertions enabled
\* the call of a sphere that is not in the bucket throws at its first
\* line; without them it goes on.
PairRemoveParticle(b, particle, skipLayout, assertions) ==
  /\ ~hung
  /\ notInBucket' = (notInBucket \/ ~containsParticle(particlesOf[b], particle))
  /\ last' = Op("removeParticle", particle, ZERO, skipLayout, None) @@ [ engine |-> b ]
  /\ IF assertions /\ ~containsParticle(particlesOf[b], particle)
     THEN UNCHANGED << particlesOf, sphere, hung >>
     ELSE \E without \in { SelectSeq(particlesOf[b], LAMBDA x : x # particle) } :
          \E layout \in { IF skipLayout
                          THEN [ returns |-> TRUE,
                                 destination |-> destinationOf(sphere) ]
                          ELSE relayoutBucketParticles(TheBuckets[b], without,
                                                       destinationOf(sphere)) } :
            /\ particlesOf' = [ particlesOf EXCEPT ![b] = without ]
            /\ sphere' = [ x \in DOMAIN sphere |->
                             [ unlinked(sphere, particle)[x]
                                 EXCEPT !.destination = layout.destination[x] ] ]
            /\ hung' = ~layout.returns
  /\ UNCHANGED << bucket, particles, destination, position, userControlled,
                  bucketRemovalListener, assertFailed, pc >>

\* the forEach of reset over ps[k..]
RECURSIVE resetLoop(_, _, _)
resetLoop(ps, k, sp) ==
  IF k > Len(ps) THEN sp ELSE resetLoop(ps, k + 1, unlinked(sp, ps[k]))

PairReset(b) ==
  /\ ~hung
  /\ sphere' = resetLoop(particlesOf[b], 1, sphere)
  /\ particlesOf' = [ particlesOf EXCEPT ![b] = << >> ]
  /\ last' = Op("reset", None, ZERO, FALSE, None) @@ [ engine |-> b ]
  /\ UNCHANGED << bucket, particles, destination, position, userControlled,
                  bucketRemovalListener, assertFailed, hung, pc, notInBucket >>

InitPair ==
  /\ InitOne({ TwoSlotBucket }, PairSpheres)
  /\ pc = "idle"
  /\ particlesOf = [ b \in DOMAIN TheBuckets |-> << >> ]
  /\ sphere = [ s \in 1..PairSpheres |->
                  [ destination |-> Start,
                    position |-> Start,
                    linked |-> [ b \in DOMAIN TheBuckets |-> 0 ],
                    bucketRemovalListener |-> None ] ]
  /\ notInBucket = FALSE

NextPair ==
  \/ \E b \in DOMAIN TheBuckets, s \in DOMAIN sphere : PairAddParticleFirstOpen(b, s)
  \/ \E b \in DOMAIN TheBuckets, s \in DOMAIN sphere, skipLayout \in BOOLEAN,
        assertions \in BOOLEAN :
       PairRemoveParticle(b, s, skipLayout, assertions)
  \/ \E b \in DOMAIN TheBuckets : PairReset(b)

SpecPair == InitPair /\ [][NextPair]_vars

\* The first of the two buckets alone: every operation is one of its own.
NextAlone ==
  \/ \E s \in DOMAIN sphere : PairAddParticleFirstOpen(1, s)
  \/ \E s \in DOMAIN sphere, skipLayout \in BOOLEAN, assertions \in BOOLEAN :
       PairRemoveParticle(1, s, skipLayout, assertions)
  \/ PairReset(1)

SpecAlone == InitPair /\ [][NextAlone]_vars

TypeOK ==
  /\ particles \in Seq(Spheres)
  /\ DOMAIN destination = { particles[i] : i \in 1..Len(particles) }
  /\ DOMAIN position = DOMAIN destination
  /\ DOMAIN userControlled = DOMAIN destination
  /\ hung \in BOOLEAN
  /\ assertFailed \in BOOLEAN

\* ------------------------------------------------------------------------
\* Properties
\* ------------------------------------------------------------------------
Members == { particles[i] : i \in 1..Len(particles) }

\* the layer a member's destination lies in
LayerOf(s) == getLayerForYPosition(bucket, destination[s][2])

\* the members that support s: those in the layer directly below, closer
\* than 3 * sphereRadius
SupportersOf(s) ==
  { m \in Members :
      /\ LayerOf(m) = LayerOf(s) - 1
      /\ distanceSquared(destination[m], destination[s])
           < 9 * bucket.sphereRadius * bucket.sphereRadius }

\* C1: after any sequence of completed add and removeParticle operations,
\* no member whose destination is in layer >= 1 has fewer than 2 supporting
\* members.
C1_NoMemberDangles ==
  ~hung => \A s \in Members : LayerOf(s) >= 1 => Cardinality(SupportersOf(s)) >= 2

\* C2: no two distinct members of the bucket have the same destination.
C2_DestinationsDistinct ==
  \A s \in Members, t \in Members : s # t => destination[s] # destination[t]

\* C3: relayoutBucketParticles always terminates: no operation is ever left
\* inside a relayout that does not end.
C3_RelayoutTerminates == ~hung

\* the step adds a sphere by addParticleNearestOpen
AddedNearestOpen ==
  /\ last'.op = "addParticleNearestOpen"
  /\ Len(particles') = Len(particles) + 1

\* the location of locs[k..] horizontally closest to point, the first
\* found among equally close ones; best is the closest of locs[1..k-1]
RECURSIVE horizontallyClosest(_, _, _, _)
horizontallyClosest(locs, k, best, point) ==
  IF k > Len(locs) THEN best
  ELSE horizontallyClosest(locs, k + 1,
         IF Abs(locs[k][1] - point[1]) < Abs(best[1] - point[1])
         THEN locs[k] ELSE best,
         point)

\* C4: addParticleNearestOpen chooses, among the admissible open slots, the
\* one whose x-coordinate is closest to the reference point's x-coordinate,
\* whatever the vertical distance, and the first found among slots with
\* equal horizontal distance.
C4_HorizontallyClosestChosen ==
  [][ AddedNearestOpen =>
        LET locs == openLocations(bucket, particles, destination)
        IN  locs # << >> =>
              destination'[last'.particle]
                = horizontallyClosest(locs, 1, locs[1], last'.location) ]_vars

\* the x-coordinate of the container's left edge and the y-coordinate of
\* layer 0
LeftEdge == bucket.position[1] - bucket.width \div 2
BottomRow == bucket.position[2] + bucket.verticalParticleOffset

\* slot k (from 0, left to right) of a layer of the pyramid: the layers
\* are 0.866 * 2 * sphereRadius apart, and each is shifted inward by
\* sphereRadius against the layer below
PyramidSlot(layer, k) ==
  << LeftEdge + (bucket.width - usableWidth(bucket)) \div 2
       + (1 + layer + 2 * k) * bucket.sphereRadius,
     BottomRow + layer * ((1732 * bucket.sphereRadius) \div 1000) >>

\* the k-th sphere added lies in slot k of layer 0 if layer 0 has that
\* many slots, and the one added after layer 0 is full lies in layer 1 on
\* 2 occupied layer-0 slots
FilledInOrder(n0) ==
  \A k \in 1..Len(particles) :
    /\ k <= n0 => destination[particles[k]] = PyramidSlot(0, k - 1)
    /\ k = n0 + 1 =>
         /\ LayerOf(particles[k]) = 1
         /\ destination[particles[k]][2] # BottomRow
         /\ Cardinality(SupportersOf(particles[k])) = 2
         /\ \A m \in SupportersOf(particles[k]) : destination[m][2] = BottomRow

\* C5 as claimed: starting from an empty bucket with n0 layer-0 slots, the
\* first n0 spheres added by addParticleFirstOpen fill layer 0 left to
\* right, and the (n0+1)-th is placed in layer 1 at a slot that has 2
\* occupied supporting layer-0 slots.
C5_FillsLayerZeroThenLayerOne == FilledInOrder(numParticlesInLayer0(bucket))

\* C5 as amended: the same for a bucket whose layer 0 has at least 2 slots.
C5_FillsLayerZeroThenLayerOneFromTwoSlots ==
  numParticlesInLayer0(bucket) >= 2 => FilledInOrder(numParticlesInLayer0(bucket))

\* a sphere beyond layer 0 has been added to the standard bucket
C5_Witness ==
  /\ bucket = StandardBucket
  /\ Len(particles) = 5
  /\ LayerOf(particles[5]) = 1

\* sphereRadius = 10, usableWidthProportion = 1.0 and container width = 100
IsStandard ==
  /\ bucket.sphereRadius = 10 * Scale
  /\ bucket.usableWidthProportion = 100
  /\ bucket.width = 100 * Scale

\* layer 0 of the bucket being filled has exactly 4 slots, the leftmost at
\* the left edge + first and the others every spacing to its right
LayerZeroSlots(first, spacing) ==
  \A k \in 1..Len(particles) :
    /\ k <= 4 => destination[particles[k]]
                   = << LeftEdge + first + (k - 1) * spacing, BottomRow >>
    /\ k > 4 => destination[particles[k]][2] # BottomRow

\* C6 as claimed: for sphereRadius = 10, usableWidthProportion = 1.0 and
\* container width = 100, layer 0 has exactly 4 slots, 10 units apart, the
\* leftmost at the container's left edge + 10.
C6_FourSlotsTenApart == IsStandard => LayerZeroSlots(10 * Scale, 10 * Scale)

\* C6 as amended: layer 0 has exactly 4 slots, 20 units apart, the leftmost
\* at the container's left edge + 20.
C6_FourSlotsTwentyApart == IsStandard => LayerZeroSlots(20 * Scale, 20 * Scale)

\* layer 0 of a standard bucket is full and a fifth sphere has been added
C6_Witness ==
  /\ IsStandard
  /\ Len(particles) = 5
  /\ \A k \in 1..4 : destination[particles[k]][2] = BottomRow

\* C7: two consecutive addParticleFirstOpen calls assign two different
\* destination coordinates, and neither equals the destination of a sphere
\* that was already a member.
C7_ConsecutiveFirstOpenDiffer ==
  last.again =>
    LET n == Len(particles)
        first == destination[particles[n - 1]]
        second == destination[particles[n]]
    IN  /\ first # second
        /\ \A i \in 1..(n - 2) : destination[particles[i]] \notin { first, second }

\* two consecutive addParticleFirstOpen calls have been made on a bucket
\* that already had a member, in a bucket with at most 1 slot in layer 0
C7_Witness ==
  /\ last.again
  /\ Len(particles) = 3
  /\ numParticlesInLayer0(bucket) <= 1

C9_ExtractedIsRemoved ==
  (last.op = "extractClosestParticle" /\ last.result # None /\ ~hung) =>
    /\ last.flag
    /\ last.result \notin Members
    /\ ~bucketRemovalListener[last.result]

\* the square of the distance from a member's current position to point
DistanceTo(m, point) == distanceSquared(position[m], point)

\* C10: extractClosestParticle on a bucket with no members returns null and
\* changes nothing; on a bucket with members it returns the member whose
\* current position is nearest to the query point, the earliest in member
\* order among the nearest.
C10_ExtractsNearestByPosition ==
  [][ last'.op = "extractClosestParticle" =>
        IF particles = << >>
        THEN /\ last'.result = None
             /\ UNCHANGED << bucket, particles, destination, position, userControlled,
                             bucketRemovalListener, assertFailed, hung >>
        ELSE \E i \in 1..Len(particles) :
               /\ last'.result = particles[i]
               /\ \A j \in 1..Len(particles) :
                    DistanceTo(particles[i], last'.location)
                      <= DistanceTo(particles[j], last'.location)
               /\ \A j \in 1..(i - 1) :
                    DistanceTo(particles[i], last'.location)
                      < DistanceTo(particles[j], last'.location) ]_vars

\* extractClosestParticle has taken one of two members
C10_Witness ==
  /\ last.op = "extractClosestParticle"
  /\ last.result # None
  /\ Len(particles) = 1
  /\ last.result \notin Members

\* the operation completed last added a sphere
Added == last.op \in { "addParticleFirstOpen", "addParticleNearestOpen" }

\* C13: an add operation (addParticleFirstOpen or addParticleNearestOpen)
\* with animate = false leaves the sphere's current position equal to its
\* newly assigned destination; with animate = true it leaves the sphere's
\* current position where it was on arrival; in both cases the sphere is a
\* member afterwards.
C13_AddSnapsUnlessAnimated ==
  Added =>
    /\ last.particle \in Members
    /\ position[last.particle]
         = IF last.flag THEN Start ELSE destination[last.particle]

\* an animated add has left a sphere away from its destination, and a
\* second sphere has been added without animation
C13_Witness ==
  /\ Added /\ ~last.flag
  /\ Len(particles) = 2
  /\ position[particles[1]] = Start
  /\ destination[particles[1]] # Start
  /\ position[particles[2]] = destination[particles[2]]

\* C15: when the nearest-open search finds no admissible open slot at all,
\* addParticleNearestOpen assigns the bucket's position as the destination,
\* for every bucket position.
C15_FallbackIsBucketPosition ==
  [][ (AddedNearestOpen /\ openLocations(bucket, particles, destination) = << >>)
        => destination'[last'.particle] = bucket.position ]_vars

\* C16: after addParticleNearestOpen(s) on any reachable bucket state, a
\* relayout with no other mutation in between returns and leaves the
\* destination of s unchanged.
C16_RelayoutKeepsAddedSphere ==
  (last.op = "addParticleNearestOpen" /\ ~hung) =>
    LET r == relayoutBucketParticles(bucket, particles, destination)
    IN  /\ r.returns
        /\ r.destination[last.particle] = destination[last.particle]

\* the members of ps whose destination supports the point p: in the layer
\* directly below it and closer than 3 * sphereRadius
SupportingSlots(b, ps, dest, p) ==
  { i \in 1..Len(ps) :
      /\ getLayerForYPosition(b, dest[ps[i]][2]) = getLayerForYPosition(b, p[2]) - 1
      /\ dest[ps[i]][2] < p[2]
      /\ distanceSquared(dest[ps[i]], p) < 9 * b.sphereRadius * b.sphereRadius }

\* p is a slot a search on behalf of the sphere mover may assign: an
\* unoccupied point of the bottom row, or an unoccupied point of a layer
\* above it with at least 2 supporting members other than mover
AdmissibleFor(b, ps, dest, mover, p) ==
  /\ isPositionOpen(ps, dest, p)
  /\ \/ p[2] = b.position[2] + b.verticalParticleOffset
     \/ /\ getLayerForYPosition(b, p[2]) >= 1
        /\ Cardinality({ i \in SupportingSlots(b, ps, dest, p) : ps[i] # mover }) >= 2

\* every empty slot of layer 0 is among the candidates of the search
EmptyBottomSlotsAreCandidates(b, ps, dest) ==
  \A k \in 0..(numParticlesInLayer0(b) - 1) :
    LET slot == << b.position[1] - b.width \div 2
                     + (b.width - usableWidth(b)) \div 2 + (1 + 2 * k) * b.sphereRadius,
                   b.position[2] + b.verticalParticleOffset >>
        locs == openLocations(b, ps, dest)
    IN  isPositionOpen(ps, dest, slot) => \E j \in 1..Len(locs) : locs[j] = slot

\* the step is a reassignment made inside relayoutBucketParticles
Reassigned == pc = "relayout" /\ pc' = "relayout"

\* C18: a destination assigned by the nearest-open search, in
\* addParticleNearestOpen or in a reassignment of the relayout, is an
\* unoccupied slot that is in layer 0 or has at least 2 occupied supporting
\* slots in the layer directly below within 3 * sphereRadius, the moved
\* sphere not being counted as its own supporter; and every empty layer-0
\* slot is a candidate.
C18_AssignedSlotIsAdmissible ==
  [][ /\ AddedNearestOpen =>
           /\ AdmissibleFor(bucket, particles, destination, last'.particle,
                            destination'[last'.particle])
           /\ EmptyBottomSlotsAreCandidates(bucket, particles, destination)
      /\ Reassigned =>
           /\ AdmissibleFor(bucket, particles, destination,
                            particles[firstDangling(bucket, particles, destination)],
                            destination'[particles[firstDangling(bucket, particles,
                                                                 destination)]])
           /\ EmptyBottomSlotsAreCandidates(bucket, particles, destination) ]_vars

\* C20: a sphere that was added while its held-by-user flag was true remains
\* a member, with its destination unchanged, when the flag afterwards
\* changes to false.
C20_ReleaseKeepsMember ==
  [][ (last'.op = "userControlled" /\ ~last'.flag) =>
        /\ containsParticle(particles', last'.particle)
        /\ destination'[last'.particle] = destination[last'.particle] ]_vars

\* the members of ps that are dangling
danglingParticles(b, ps, dest) ==
  { ps[i] : i \in { j \in 1..Len(ps) : isDangling(b, ps, dest, ps[j]) } }

\* the dangling members of ps whose destination is in layer 0
danglingInLayerZero(b, ps, dest) ==
  { m \in danglingParticles(b, ps, dest) : getLayerForYPosition(b, dest[m][2]) = 0 }

\* C17: every single reassignment made inside relayoutBucketParticles
\* strictly decreases the number of dangling members, and never creates a
\* dangling member in layer 0.
C17_ReassignmentReducesDangling ==
  [][ Reassigned =>
        /\ Cardinality(danglingParticles(bucket, particles', destination'))
             < Cardinality(danglingParticles(bucket, particles, destination))
        /\ danglingInLayerZero(bucket, particles', destination')
             \subseteq danglingInLayerZero(bucket, particles, destination) ]_vars

\* the step is made inside a removeParticle call, the first one included
InsideRemoveParticle == pc # "idle" \/ pc' # "idle"

\* C19: inside removeParticle the removal listener is detached first, then
\* the sphere is evicted from the members, then (unless skipLayout) the
\* relayout runs: no step changes the members or a member's destination
\* while the removed sphere's listener is still attached.
C19_DetachedBeforeAnyMutation ==
  [][ (InsideRemoveParticle /\ bucketRemovalListener[last'.particle]) =>
        /\ particles' = particles
        /\ \A i \in 1..Len(particles') :
             destination'[particles'[i]] = destination[particles'[i]] ]_vars

\* the spheres in this._particles of bucket b
MembersOf(b) == { particlesOf[b][i] : i \in 1..Len(particlesOf[b]) }

\* the listeners of a sphere: those linked, and the one its field holds
listenersOf(sp, s) == << sp[s].linked, sp[s].bucketRemovalListener >>

\* C11: removeParticle called with a sphere that is not a member signals a
\* contract violation and, also when the assertion is disabled, leaves the
\* bucket's state uncorrupted: the members collection, every member's
\* destination and every sphere's removal listener are unchanged.
C11_RemovingNonMemberChangesNothing ==
  [][ (/\ last'.op = "removeParticle"
       /\ ~containsParticle(particlesOf[last'.engine], last'.particle)) =>
        /\ notInBucket'
        /\ particlesOf' = particlesOf
        /\ \A m \in MembersOf(last'.engine) :
             sphere'[m].destination = sphere[m].destination
        /\ \A s \in DOMAIN sphere : listenersOf(sphere', s) = listenersOf(sphere, s) ]_vars

\* C12: after reset the members collection is empty, no former member has a
\* removal listener of the bucket linked, and no sphere's destination or
\* position has been changed by it.
C12_ResetDetachesAndKeepsLayout ==
  [][ last'.op = "reset" =>
        /\ particlesOf'[last'.engine] = << >>
        /\ \A m \in MembersOf(last'.engine) : sphere'[m].linked[last'.engine] = 0
        /\ \A s \in DOMAIN sphere :
             /\ sphere'[s].destination = sphere[s].destination
             /\ sphere'[s].position = sphere[s].position ]_vars

\* C14: with two buckets and any sequence of add and remove operations, no
\* sphere is ever a member of both buckets at once, and no sphere occurs
\* more than once in one bucket's members collection.
C14_OneBucketOnce ==
  /\ \A b \in DOMAIN particlesOf, c \in DOMAIN particlesOf :
       b # c => MembersOf(b) \cap MembersOf(c) = {}
  /\ \A b \in DOMAIN particlesOf :
       \A i \in 1..Len(particlesOf[b]), j \in 1..Len(particlesOf[b]) :
         i # j => particlesOf[b][i] # particlesOf[b][j]

\* C21: after every completed operation of a single bucket, a sphere has a
\* removal listener of this bucket attached if and only if it is currently a
\* member of the bucket, and it has at most one such listener.
C21_OneListenerIffMember ==
  ~hung => \A s \in DOMAIN sphere :
             sphere[s].linked[1] = IF s \in MembersOf(1) THEN 1 ELSE 0

\* the destination of the member s is not on the bottom row and has fewer
\* than 2 supporting members below it: members that lie lower, closer than
\* 3 * sphereRadius
Dangling(s) ==
  /\ destination[s][2] # BottomRow
  /\ Cardinality({ m \in Members :
                     /\ destination[m][2] < destination[s][2]
                     /\ distanceSquared(destination[m], destination[s])
                          < 9 * bucket.sphereRadius * bucket.sphereRadius }) < 2

\* C22: removeParticle and its relayout change only destinations of members
\* that were dangling at the moment they were reassigned: the membership of
\* the other spheres, every sphere's current position, and the destination
\* of every member that is not dangling are left unchanged by every step;
\* with skipLayout set, removeParticle changes no destination at all.
C22_OnlyDanglingMembersMove ==
  [][ InsideRemoveParticle =>
        /\ particles' = SelectSeq(particles, LAMBDA x : x # last'.particle)
        /\ \A i \in 1..Len(particles') :
             LET m == particles'[i]
             IN  /\ position'[m] = position[m]
                 /\ destination'[m] # destination[m] =>
                      /\ pc = "relayout"
                      /\ ~last.flag
                      /\ Dangling(m) ]_vars

\* a removeParticle has evicted a sphere of the bottom row, and its relayout
\* has moved the sphere that rested on it down to the bottom row
C22_Witness ==
  /\ pc = "relayout"
  /\ \E m \in Members : /\ position[m][2] > BottomRow
                        /\ destination[m][2] = BottomRow
                        /\ destination[m] # ZERO

====
